---- MODULE Spec2Model ----
(***************************************************************************)
(* Mergington High School activities API (src/src/app.py).                 *)
(*                                                                         *)
(* The store is the SQLite file behind SQLAlchemy: the tables activities,  *)
(* participants and signups.  Every request handler opens its own session  *)
(* (SessionLocal()), so each SELECT reads the committed tables, the first  *)
(* INSERT/DELETE of a session takes the database write lock, db.commit()   *)
(* publishes the session's writes and db.close() in the finally clause     *)
(* rolls back whatever was not committed.  Handlers are plain `def`        *)
(* endpoints: the framework runs them on a thread pool, so the statements  *)
(* of different requests interleave.                                       *)
(*                                                                         *)
(* Rows are identified by their unique column (activity name, participant  *)
(* email); the surrogate ids are in bijection with them and are left out.  *)
(***************************************************************************)
EXTENDS Naturals, Integers, FiniteSets, Sequences, TLC

\* ------------------------------------------------------------------ bounds
\* Number of request threads that may be inside a handler at once.
NumWorkers == 2
\* Number of events (requests received, restarts) of a run.
MaxEvents == 3

Workers == 1..NumWorkers
\* The one client of the sequential specification.
Client == CHOOSE w \in Workers : \A v \in Workers : w <= v

\* ------------------------------------------------------------------ inputs
\* Emails the requests are made with: one seeded by initial_activities, one
\* the store has never seen.
Emails == {"michael@mergington.edu", "new@x.edu"}
\* Activity names the requests are made with; each database file below
\* lacks at least one of them.
Names == {"Chess Club", "Solo", "Open"}
Ops == {"signup", "unregister"}

\* ---------------------------------------------------------------- seed data
initial_activities ==
  [n \in {"Chess Club", "Programming Class", "Gym Class"} |->
     CASE n = "Chess Club" ->
            [max_participants |-> 12,
             participants |-> {"michael@mergington.edu", "daniel@mergington.edu"}]
       [] n = "Programming Class" ->
            [max_participants |-> 20,
             participants |-> {"emma@mergington.edu", "sophia@mergington.edu"}]
       [] n = "Gym Class" ->
            [max_participants |-> 30,
             participants |-> {"john@mergington.edu", "olivia@mergington.edu"}]]

\* The database file as Base.metadata.create_all leaves it when there was none.
fresh_db == [activities |-> <<>>, participants |-> {}, signups |-> {}]

\* A database file that already holds activity rows when the process starts:
\* one activity with a single place, one with max_participants = 0 (the
\* column's default, unlimited).
existing_db ==
  [activities |-> ("Solo" :> 1) @@ ("Open" :> 0), participants |-> {}, signups |-> {}]

DBFiles == {fresh_db, existing_db}

SeedEmails == UNION {initial_activities[n].participants : n \in DOMAIN initial_activities}

\* The rows seed_db inserts: one activity row per entry, one participant row
\* per email, one signups row per (activity, email of its list).
seeded_rows ==
  [activities |-> [n \in DOMAIN initial_activities |-> initial_activities[n].max_participants],
   participants |-> SeedEmails,
   signups |-> {p \in (DOMAIN initial_activities) \X SeedEmails :
                  p[2] \in initial_activities[p[1]].participants}]

\* seed_db without the `existing` guard: every start inserts the seed rows again.
seed_db_every_start(db) ==
  [activities |-> seeded_rows.activities @@ db.activities,
   participants |-> db.participants \cup seeded_rows.participants,
   signups |-> db.signups \cup seeded_rows.signups]

\* seed_db(): nothing when any activity row exists, else the seed rows.
seed_db(db) ==
  IF DOMAIN db.activities # {}
    THEN db
    ELSE [activities |-> seeded_rows.activities,
          participants |-> db.participants \cup seeded_rows.participants,
          signups |-> db.signups \cup seeded_rows.signups]

\* ------------------------------------------------------------------- state
VARIABLES
  activities,    \* table activities: name -> max_participants
  participants,  \* table participants: the emails that have a row
  signups,       \* table signups: the <<activity name, email>> rows
  req,           \* per worker thread: the request it runs and where it is
  writer,        \* the session holding the database write lock, 0 if none
  trail,         \* history of the sequential client, <<>> when not kept
  issued         \* number of requests received and restarts so far

vars == <<activities, participants, signups, req, writer, trail, issued>>

idle == [pc |-> "idle", op |-> "none", name |-> "", email |-> "",
         created |-> FALSE, status |-> "none"]

\* An exception that is no HTTPException leaves the handler as a 500.
ServerErrors == {"500 IntegrityError participants.email", "500 IntegrityError signups",
                 "500 StaleDataError", "500 database is locked", "500 commit failed"}

\* activity.participants as a lazy load reads it from the committed tables.
roster(S, name) == {e \in Emails \cup SeedEmails : <<name, e>> \in S}

Event(op, name, email, status, P, S) ==
  [op |-> op, name |-> name, email |-> email, status |-> status,
   participants |-> P, signups |-> S]

Log(ev) == IF trail = <<>> THEN trail ELSE Append(trail, ev)

Budget == issued < MaxEvents

Init ==
  /\ \E f \in DBFiles :
       /\ activities = seed_db(f).activities
       /\ participants = seed_db(f).participants
       /\ signups = seed_db(f).signups
  /\ req = [w \in Workers |-> idle]
  /\ writer = 0
  /\ trail = <<>>
  /\ issued = 0

\* ---------------------------------------------------------------- handlers
\* The request leaves the handler: req[w] keeps the response and whether the
\* session had flushed a new participant row, the tables become P and S, the
\* session's write lock is released.
Finish(w, status, P, S) ==
  /\ req' = [req EXCEPT ![w] = [idle EXCEPT !.pc = "done", !.status = status,
                                              !.created = req[w].created]]
  /\ participants' = P
  /\ signups' = S
  /\ writer' = IF writer = w THEN 0 ELSE writer
  /\ trail' = Log(Event(req[w].op, req[w].name, req[w].email, status, P, S))
  /\ UNCHANGED <<activities, issued>>

Goto(w, pc) ==
  /\ req' = [req EXCEPT ![w].pc = pc]
  /\ UNCHANGED <<activities, participants, signups, writer, trail, issued>>

\* db.close() with uncommitted writes keeps the flushed participant row.
close_keeps_flush(w) ==
  [participants |-> IF req[w].created THEN participants \cup {req[w].email} ELSE participants,
   signups |-> signups]

\* finally: db.close() without a commit: the session's writes are rolled back.
close(w) == [participants |-> participants, signups |-> signups]

Abort(w, status) == Finish(w, status, close(w).participants, close(w).signups)

\* A request arrives and the framework hands it to a free worker thread.
Start(w, op, name, email) ==
  /\ req[w].pc \in {"idle", "done"}
  /\ Budget
  /\ issued' = issued + 1
  /\ req' = [req EXCEPT ![w] = [pc |-> IF op = "signup" THEN "s141" ELSE "u170",
                                 op |-> op, name |-> name, email |-> email,
                                 created |-> FALSE, status |-> "none"]]
  /\ UNCHANGED <<activities, participants, signups, writer, trail>>

\* Status of an unknown activity mixed up with the business-rule status.
find_activity_400(name) ==
  IF name \in DOMAIN activities THEN "none" ELSE "400 not signed up"

\* db.query(Activity).filter_by(name=activity_name).first(); 404 if not activity.
find_activity(name) ==
  IF name \in DOMAIN activities THEN "none" ELSE "404"

\* Capacity checked before the duplicate check.
signup_checks_full_first(max, r, email) ==
  IF max # 0 /\ Cardinality(r) >= max THEN "400 full"
  ELSE IF email \in r THEN "400 already signed up"
  ELSE "none"

\* Capacity check without the `max_participants and` guard.
signup_checks_zero_is_full(max, r, email) ==
  IF email \in r THEN "400 already signed up"
  ELSE IF Cardinality(r) >= max THEN "400 full"
  ELSE "none"

\* The two checks of signup on the loaded activity.participants.
signup_checks(max, r, email) ==
  IF email \in r THEN "400 already signed up"
  ELSE IF max # 0 /\ Cardinality(r) >= max THEN "400 full"
  ELSE "none"

SignupFindActivity(w) ==
  /\ req[w].pc = "s141"
  /\ IF find_activity(req[w].name) = "none"
       THEN Goto(w, "s146")
       ELSE Abort(w, find_activity(req[w].name))

SignupCheck(w) ==
  /\ req[w].pc = "s146"
  /\ LET st == signup_checks(activities[req[w].name], roster(signups, req[w].name), req[w].email)
     IN IF st = "none" THEN Goto(w, "s153") ELSE Abort(w, st)

SignupFindParticipant(w) ==
  /\ req[w].pc = "s153"
  /\ IF req[w].email \in participants THEN Goto(w, "s159") ELSE Goto(w, "s155")

\* db.add(participant); db.flush(): the INSERT takes the write lock and the
\* unique index on participants.email rejects an email that has a row.
SignupCreateParticipant(w) ==
  /\ req[w].pc = "s155"
  /\ writer = 0
  /\ IF req[w].email \in participants
       THEN Abort(w, "500 IntegrityError participants.email")
       ELSE /\ req' = [req EXCEPT ![w].pc = "s159", ![w].created = TRUE]
            /\ writer' = w
            /\ UNCHANGED <<activities, participants, signups, trail, issued>>

\* activity.participants.append(participant); db.commit(): INSERT INTO signups
\* (primary key (activity, participant)), then COMMIT.
SignupCommit(w) ==
  /\ req[w].pc = "s159"
  /\ writer \in {0, w}
  /\ IF <<req[w].name, req[w].email>> \in signups
       THEN Abort(w, "500 IntegrityError signups")
       ELSE Finish(w, "200",
                   IF req[w].created THEN participants \cup {req[w].email} ELSE participants,
                   signups \cup {<<req[w].name, req[w].email>>})

UnregFindActivity(w) ==
  /\ req[w].pc = "u170"
  /\ IF find_activity(req[w].name) = "none"
       THEN Goto(w, "u174")
       ELSE Abort(w, find_activity(req[w].name))

\* unregister that only asks whether the participant row exists.
unregister_checks_row_only(found, r, email) ==
  IF ~found THEN "400 not signed up" ELSE "none"

\* not participant or participant not in activity.participants
unregister_checks(found, r, email) ==
  IF ~found \/ email \notin r THEN "400 not signed up" ELSE "none"

\* db.query(Participant).filter_by(email=email).first(); `not participant`
\* short-circuits the condition of line 175.
UnregFindParticipant(w) ==
  /\ req[w].pc = "u174"
  /\ IF req[w].email \in participants
       THEN Goto(w, "u175")
       ELSE Abort(w, unregister_checks(FALSE, {}, req[w].email))

UnregCheck(w) ==
  /\ req[w].pc = "u175"
  /\ LET st == unregister_checks(TRUE, roster(signups, req[w].name), req[w].email)
     IN IF st = "none" THEN Goto(w, "u178") ELSE Abort(w, st)

\* remove() that leaves the signups row in place.
remove_nothing(S, name, email) == S

\* activity.participants.remove(participant): DELETE of the signups row.
remove(S, name, email) == S \ {<<name, email>>}

\* activity.participants.remove(participant); db.commit(): the DELETE must
\* match one row, else the unit of work raises StaleDataError.
UnregCommit(w) ==
  /\ req[w].pc = "u178"
  /\ writer = 0
  /\ IF <<req[w].name, req[w].email>> \notin signups
       THEN Abort(w, "500 StaleDataError")
       ELSE Finish(w, "200", participants, remove(signups, req[w].name, req[w].email))

\* The first write of a session waits for the write lock; when another
\* session keeps it beyond the busy timeout, sqlite3 raises "database is locked".
LockTimeout(w) ==
  /\ req[w].pc \in {"s155", "s159", "u178"}
  /\ writer \notin {0, w}
  /\ Abort(w, "500 database is locked")

\* db.commit() itself raises (the store fails under the session).
CommitFails(w) ==
  /\ req[w].pc \in {"s159", "u178"}
  /\ writer \in {0, w}
  /\ Abort(w, "500 commit failed")

\* The process is stopped and started again: the requests in flight are
\* gone, their sessions' writes with them; the module body runs create_all
\* and seed_db() on the database file.
Restart ==
  /\ Budget
  /\ activities' = seed_db([activities |-> activities, participants |-> participants,
                            signups |-> signups]).activities
  /\ participants' = seed_db([activities |-> activities, participants |-> participants,
                              signups |-> signups]).participants
  /\ signups' = seed_db([activities |-> activities, participants |-> participants,
                         signups |-> signups]).signups
  /\ req' = [w \in Workers |-> idle]
  /\ writer' = 0
  /\ trail' = Log(Event("restart", "", "", "none", participants', signups'))
  /\ issued' = issued + 1

Next ==
  \/ Restart
  \/ \E w \in Workers, op \in Ops, name \in Names, email \in Emails : Start(w, op, name, email)
  \/ \E w \in Workers : SignupFindActivity(w)
  \/ \E w \in Workers : SignupCheck(w)
  \/ \E w \in Workers : SignupFindParticipant(w)
  \/ \E w \in Workers : SignupCreateParticipant(w)
  \/ \E w \in Workers : SignupCommit(w)
  \/ \E w \in Workers : UnregFindActivity(w)
  \/ \E w \in Workers : UnregFindParticipant(w)
  \/ \E w \in Workers : UnregCheck(w)
  \/ \E w \in Workers : UnregCommit(w)
  \/ \E w \in Workers : LockTimeout(w)
  \/ \E w \in Workers : CommitFails(w)

Spec == Init /\ [][Next]_vars

\* One client that sends a request, waits for the response, sends the next.
InitSeq ==
  /\ \E f \in DBFiles :
       /\ activities = seed_db(f).activities
       /\ participants = seed_db(f).participants
       /\ signups = seed_db(f).signups
  /\ req = [w \in Workers |-> idle]
  /\ writer = 0
  /\ trail = <<Event("startup", "", "", "none", participants, signups)>>
  /\ issued = 0

NextSeq ==
  \/ Restart
  \/ \E op \in Ops, name \in Names, email \in Emails : Start(Client, op, name, email)
  \/ SignupFindActivity(Client)
  \/ SignupCheck(Client)
  \/ SignupFindParticipant(Client)
  \/ SignupCreateParticipant(Client)
  \/ SignupCommit(Client)
  \/ UnregFindActivity(Client)
  \/ UnregFindParticipant(Client)
  \/ UnregCheck(Client)
  \/ UnregCommit(Client)

SpecSeq == InitSeq /\ [][NextSeq]_vars

\* -------------------------------------------------------------- properties
\* trail[1] is the store at startup; trail[i-1] holds the tables as the
\* sequential client's i-th event found them.
StoreAt(i) == [participants |-> trail[i].participants, signups |-> trail[i].signups]
IsCall(i, op, name, email) ==
  trail[i].op = op /\ trail[i].name = name /\ trail[i].email = email
HasRoom(S, name) ==
  activities[name] = 0 \/ Cardinality(roster(S, name)) < activities[name]

\* C1: in every reachable state, every activity with max_participants > 0
\* has at most max_participants enrolled participants.
C1_CapacityRespected ==
  \A a \in DOMAIN activities :
    activities[a] > 0 => Cardinality(roster(signups, a)) <= activities[a]

\* C2: the read-check-write of a signup is atomic: a signup that commits
\* "200" does so on a roster that still passes the checks it made, so of two
\* concurrent signups for the one place of an activity only one succeeds.
C2_SignupAtomic ==
  [][\A w \in Workers :
       (req[w].pc = "s159" /\ req'[w].pc = "done" /\ req'[w].status = "200")
         => signup_checks(activities[req[w].name], roster(signups, req[w].name),
                          req[w].email) = "none"]_vars

\* C3: after a successful signup(A, email), a second signup(A, email) with
\* no unregister of the pair in between returns "400 already signed up",
\* also when A is full, and leaves the store as it was.
C3_SecondSignupAlreadyEnrolled ==
  \A i \in 2..Len(trail), j \in 2..Len(trail) :
    ( /\ i < j
      /\ trail[i].op = "signup" /\ trail[i].status = "200"
      /\ IsCall(j, "signup", trail[i].name, trail[i].email)
      /\ \A k \in (i+1)..(j-1) : ~IsCall(k, "unregister", trail[i].name, trail[i].email) )
    => /\ trail[j].status = "400 already signed up"
       /\ StoreAt(j) = StoreAt(j-1)

C3_Witness ==
  \E i \in 2..Len(trail) :
    /\ i < Len(trail)
    /\ trail[i].op = "signup" /\ trail[i].status = "200"
    /\ activities[trail[i].name] = 1
    /\ IsCall(i+1, "signup", trail[i].name, trail[i].email)
    /\ trail[i+1].status = "400 already signed up"

\* C4: unregister(A, email) of an existing activity A and an email that is
\* not enrolled in A returns "400 not signed up" and leaves every roster and
\* the participant rows unchanged.
C4_UnregisterNotEnrolled ==
  \A j \in 2..Len(trail) :
    ( /\ trail[j].op = "unregister"
      /\ trail[j].name \in DOMAIN activities
      /\ <<trail[j].name, trail[j].email>> \notin trail[j-1].signups )
    => /\ trail[j].status = "400 not signed up"
       /\ StoreAt(j) = StoreAt(j-1)

\* The participant row exists and is enrolled in another activity only.
C4_Witness ==
  \E j \in 2..Len(trail) :
    /\ trail[j].op = "unregister"
    /\ trail[j].name \in DOMAIN activities
    /\ <<trail[j].name, trail[j].email>> \notin trail[j-1].signups
    /\ \E a \in DOMAIN activities : <<a, trail[j].email>> \in trail[j-1].signups
    /\ trail[j].status = "400 not signed up"

\* C5: for an existing activity A with room and an email not enrolled in A,
\* the sequential calls signup, unregister, signup of (A, email) each return
\* "200", and after the unregister the rosters are those before the first signup.
C5_RoundTrip ==
  \A i \in 2..Len(trail) :
    ( /\ i + 2 <= Len(trail)
      /\ trail[i].op = "signup"
      /\ trail[i].name \in DOMAIN activities
      /\ <<trail[i].name, trail[i].email>> \notin trail[i-1].signups
      /\ HasRoom(trail[i-1].signups, trail[i].name)
      /\ IsCall(i+1, "unregister", trail[i].name, trail[i].email)
      /\ IsCall(i+2, "signup", trail[i].name, trail[i].email) )
    => /\ trail[i].status = "200"
       /\ trail[i+1].status = "200"
       /\ trail[i+2].status = "200"
       /\ trail[i+1].signups = trail[i-1].signups

C5_Witness ==
  \E i \in 2..Len(trail) :
    /\ i + 2 <= Len(trail)
    /\ trail[i].op = "signup" /\ trail[i].status = "200"
    /\ IsCall(i+1, "unregister", trail[i].name, trail[i].email)
    /\ IsCall(i+2, "signup", trail[i].name, trail[i].email)
    /\ trail[i+2].status = "200"

\* C6: on an activity with max_participants = 0 no signup returns
\* "400 full", whatever the roster holds, and the signup of an email that is
\* not enrolled in it succeeds.
C6_ZeroIsUnlimited ==
  \A j \in 2..Len(trail) :
    ( /\ trail[j].op = "signup"
      /\ trail[j].name \in DOMAIN activities
      /\ activities[trail[j].name] = 0 )
    => /\ trail[j].status # "400 full"
       /\ <<trail[j].name, trail[j].email>> \notin trail[j-1].signups
            => trail[j].status = "200"

\* A signup on an unlimited activity that already has a participant.
C6_Witness ==
  \E j \in 2..Len(trail) :
    /\ trail[j].op = "signup"
    /\ trail[j].name \in DOMAIN activities
    /\ activities[trail[j].name] = 0
    /\ roster(trail[j-1].signups, trail[j].name) # {}
    /\ trail[j].status = "200"

\* C7: signup and unregister on a name that is no activity of the store
\* return "404" and change no table.
C7_UnknownActivity ==
  [][\A w \in Workers :
       ( /\ req[w].pc \in {"s141", "u170"}
         /\ req[w].name \notin DOMAIN activities
         /\ req'[w] # req[w] )
       => /\ activities' = activities /\ participants' = participants /\ signups' = signups
          /\ \/ req'[w] = idle
             \/ req'[w].pc = "done" /\ req'[w].status = "404"]_vars

C7_Witness ==
  \E w \in Workers : req[w].pc = "done" /\ req[w].status = "404"

\* C8: two concurrent signups with the same unseen email: the request whose
\* participant INSERT the unique index rejects retries the find step, so no
\* request ends in a server error caused by the duplicate creation.
C8_NoDuplicateCreateError ==
  \A w \in Workers : req[w].status # "500 IntegrityError participants.email"

\* C9: a request that ends in a store failure leaves the tables as they were
\* before it (no enrollment row, no new participant row) and its session
\* holds nothing.
C9_FailureRollsBack ==
  [][\A w \in Workers :
       ( /\ req[w].pc \notin {"idle", "done"}
         /\ req'[w].pc = "done"
         /\ req'[w].status \in ServerErrors )
       => /\ participants' = participants
          /\ signups' = signups
          /\ writer' # w]_vars

\* A failed commit of a session that had flushed a new participant row.
C9_Witness ==
  \E w \in Workers :
    req[w].pc = "done" /\ req[w].status = "500 commit failed" /\ req[w].created

\* C10: a start of the process on a store that holds activity rows changes
\* no table: no activity is added again, no unregistered seed participant is
\* enrolled again.
C10_SeedOnce ==
  [][(Len(trail') > Len(trail) /\ trail'[Len(trail')].op = "restart")
       => /\ activities' = activities
          /\ participants' = participants
          /\ signups' = signups]_vars

\* A seeded participant was unregistered, then the process started again.
C10_Witness ==
  \E i \in 2..Len(trail), j \in 2..Len(trail) :
    /\ i < j
    /\ IsCall(i, "unregister", "Chess Club", "michael@mergington.edu")
    /\ trail[i].status = "200"
    /\ trail[j].op = "restart"
    /\ <<"Chess Club", "michael@mergington.edu">> \notin signups
====
